---- MODULE Spec2Model ----
(***************************************************************************)
(* Model of the zaguan_sdk retry governor (zaguan_sdk/retry.py), of the    *)
(* error classifier it is layered on (zaguan_sdk/_http.py), of the SSE     *)
(* line parsers of the clients (chat_stream, messages_stream) and of the   *)
(* StreamAccumulator (zaguan_sdk/streaming.py).                            *)
(*                                                                         *)
(* Python floats are modelled as exact rationals <<n, d>> with d > 0; a    *)
(* delay is therefore the exact value of the expression the code           *)
(* evaluates.                                                              *)
(***************************************************************************)
EXTENDS Integers, Sequences, FiniteSets, TLC

\* ---------------------------------------------------------------------
\* Bounds of the model
\* ---------------------------------------------------------------------
\* largest max_retries a modelled RetryConfig carries
MaxRetriesBound == 3
\* random.random() is drawn from {k / JitterSteps : k \in 0..JitterSteps-1}
JitterSteps == 2
\* largest attempt index handed to a direct call of a RetryConfig method
MaxAttemptArg == 4
\* largest number of lines a modelled streaming response delivers
MaxLines == 3
\* largest number of chunks added to an accumulator between two resets
MaxChunks == 3
MaxCopies == 2

\* ---------------------------------------------------------------------
\* Rational arithmetic (stand-in for float arithmetic)
\* ---------------------------------------------------------------------
Rat(n, d) == <<n, d>>
RMul(a, b) == <<a[1] * b[1], a[2] * b[2]>>
RAdd(a, b) == <<a[1] * b[2] + b[1] * a[2], a[2] * b[2]>>
RLeq(a, b) == a[1] * b[2] <= b[1] * a[2]
REq(a, b) == a[1] * b[2] = b[1] * a[2]
RMin(a, b) == IF RLeq(a, b) THEN a ELSE b
RECURSIVE RPow(_, _)
RPow(b, n) == IF n = 0 THEN Rat(1, 1) ELSE RMul(b, RPow(b, n - 1))

\* ---------------------------------------------------------------------
\* RetryConfig
\* ---------------------------------------------------------------------
DefaultStatusCodes == {429, 500, 502, 503, 504}

\* RetryConfig() with every argument defaulted
DefaultRetryConfig ==
    [max_retries |-> 3,
     initial_delay |-> Rat(1, 1),
     max_delay |-> Rat(60, 1),
     exponential_base |-> Rat(2, 1),
     jitter |-> TRUE,
     retry_on_status_codes |-> DefaultStatusCodes]

\* the values random.random() can return, as rationals in [0, 1)
JitterDraws == {Rat(k, JitterSteps) : k \in 0..(JitterSteps - 1)}

\* RetryConfig.calculate_delay(attempt); r is the value random.random()
\* returns when jitter is enabled (unused otherwise)
calculate_delay_NoCap(cfg, a, r) ==
    LET delay == RMul(cfg.initial_delay, RPow(cfg.exponential_base, a))
    IN  IF cfg.jitter
        THEN RMul(delay, RAdd(Rat(1, 2), RMul(r, Rat(1, 2))))
        ELSE delay

calculate_delay_FullJitter(cfg, a, r) ==
    LET delay == RMin(RMul(cfg.initial_delay, RPow(cfg.exponential_base, a)),
                      cfg.max_delay)
    IN  IF cfg.jitter
        THEN RMul(delay, RAdd(Rat(1, 1), RMul(r, Rat(1, 2))))
        ELSE delay

calculate_delay(cfg, a, r) ==
    LET delay == RMin(RMul(cfg.initial_delay, RPow(cfg.exponential_base, a)),
                      cfg.max_delay)
    IN  IF cfg.jitter
        THEN RMul(delay, RAdd(Rat(1, 2), RMul(r, Rat(1, 2))))
        ELSE delay

\* ---------------------------------------------------------------------
\* Exceptions.  cls is the class of the exception object, status_code the
\* status of the response it was built from (0 when it has none), id the
\* work invocation that created the object (its identity).
\* ---------------------------------------------------------------------
NoException == [cls |-> "None", status_code |-> 0, id |-> 0]

Exc(c, s, i) == [cls |-> c, status_code |-> s, id |-> i]

\* the classes an exception class derives from (itself included), for the
\* classes the model raises
Bases(c) ==
    CASE c = "ConnectError" -> {"ConnectError", "NetworkError", "TransportError"}
      [] c = "ReadTimeout" -> {"ReadTimeout", "TimeoutException", "TransportError"}
      [] c = "ProtocolError" -> {"ProtocolError", "TransportError"}
      [] c \in {"APIError", "RateLimitError", "InsufficientCreditsError",
                "BandAccessDeniedError"} -> {c, "ZaguanError"}
      [] OTHER -> {c}

isinstance(e, classes) == Bases(e.cls) \cap classes # {}

\* isinstance(exception, (httpx.NetworkError, httpx.TimeoutException))
IsTransportFailure(e) == isinstance(e, {"NetworkError", "TimeoutException"})

\* isinstance(exception, httpx.HTTPStatusError)
IsHTTPStatusError(e) == isinstance(e, {"HTTPStatusError"})

\* `except Exception` catches every exception but the BaseException-only
\* ones (asyncio.CancelledError)
CaughtByExcept_All(e) == TRUE

CaughtByExcept(e) == ~isinstance(e, {"CancelledError"})

\* RetryConfig.should_retry(exception, attempt)
should_retry_AnyStatus(cfg, e, a) ==
    IF a >= cfg.max_retries THEN FALSE
    ELSE IF IsTransportFailure(e) THEN TRUE
    ELSE IF IsHTTPStatusError(e) THEN TRUE
    ELSE FALSE

should_retry_OffByOne(cfg, e, a) ==
    IF a > cfg.max_retries THEN FALSE
    ELSE IF IsTransportFailure(e) THEN TRUE
    ELSE IF IsHTTPStatusError(e) THEN e.status_code \in cfg.retry_on_status_codes
    ELSE FALSE

should_retry_NoBound(cfg, e, a) ==
    IF IsTransportFailure(e) THEN TRUE
    ELSE IF IsHTTPStatusError(e) THEN e.status_code \in cfg.retry_on_status_codes
    ELSE FALSE

should_retry(cfg, e, a) ==
    IF a >= cfg.max_retries THEN FALSE
    ELSE IF IsTransportFailure(e) THEN TRUE
    ELSE IF IsHTTPStatusError(e) THEN e.status_code \in cfg.retry_on_status_codes
    ELSE FALSE

\* Optional[...] values: None, or Some(v)
None == [some |-> FALSE]
Some(v) == [some |-> TRUE, v |-> v]

\* ---------------------------------------------------------------------
\* Error classifier: handle_response.  The body of a response is text that
\* is not JSON, or a JSON value; a str is a sequence of words.
\* ---------------------------------------------------------------------
ErrorTypes == {"none", "insufficient_credits", "rate_limit_exceeded",
               "band_access_denied", "other"}

JNull == [kind |-> "null"]
JBool(b) == [kind |-> "bool", b |-> b]
JNum(n) == [kind |-> "number", n |-> n]
JStr(text) == [kind |-> "string", text |-> text]
JArr(items) == [kind |-> "array", items |-> items]
JObj(fields) == [kind |-> "object", obj |-> fields]
EmptyDict == [k \in {} |-> JNull]

NotJSONBody == [json |-> FALSE]
JSONBody(value) == [json |-> TRUE, value |-> value]

\* bool(value) of a parsed JSON value
Truthy(value) ==
    CASE value.kind = "null" -> FALSE
      [] value.kind = "bool" -> value.b
      [] value.kind = "number" -> value.n # 0
      [] value.kind = "string" -> value.text # <<>>
      [] value.kind = "array" -> value.items # <<>>
      [] value.kind = "object" -> DOMAIN value.obj # {}

\* `key in value`: key of a dict, element of a list, substring of a str;
\* a TypeError for a number or a bool
SupportsIn(value) == value.kind \in {"object", "array", "string"}

Contains(value, key) ==
    CASE value.kind = "object" -> key \in DOMAIN value.obj
      [] value.kind = "array" ->
            \E i \in 1..Len(value.items) : value.items[i] = JStr(<<key>>)
      [] value.kind = "string" ->
            \E i \in 1..Len(value.text) : value.text[i] = key

\* dict.get(key, default)
DictGet_NoDefault(d, key, default) == IF key \in DOMAIN d THEN d[key] ELSE JNull

DictGet(d, key, default) == IF key \in DOMAIN d THEN d[key] ELSE default

\* response.headers.get(name)
HeaderGet(headers, name) ==
    IF name \in DOMAIN headers THEN Some(headers[name]) ELSE None

Raises(cls, args) == [kind |-> "raise", cls |-> cls, args |-> args]
Returns(value) == [kind |-> "return", value |-> value]

UnknownError == JStr(<<"Unknown error">>)

\* handle_response(response, model_class): what the call returns or raises
handle_response_outcome(response, model_class) ==
    IF response.status_code >= 200 /\ response.status_code < 300
    THEN IF ~response.body.json THEN Raises("JSONDecodeError", EmptyDict)
         ELSE IF model_class.some
         THEN IF response.body.value.kind # "object"
              THEN Raises("TypeError", EmptyDict)
              ELSE IF model_class.v.required \subseteq
                          DOMAIN response.body.value.obj
              THEN Returns([model |-> model_class.v.name,
                            data |-> response.body.value])
              ELSE Raises("ValidationError", EmptyDict)
         ELSE Returns(response.body.value)
    ELSE
    LET error_data == IF response.body.json THEN response.body.value
                      ELSE JNull
        request_id == HeaderGet(response.headers, "X-Request-Id")
        generic(message) ==
            Raises("APIError", [status_code |-> response.status_code,
                                message |-> message,
                                request_id |-> request_id])
    IN  IF ~Truthy(error_data) THEN generic(UnknownError)
        ELSE IF ~SupportsIn(error_data) THEN Raises("TypeError", EmptyDict)
        ELSE IF ~Contains(error_data, "error") THEN generic(UnknownError)
        ELSE IF error_data.kind # "object" THEN Raises("TypeError", EmptyDict)
        ELSE LET error == error_data.obj.error
             IN  IF error.kind # "object"
                 THEN Raises("AttributeError", EmptyDict)
                 ELSE
                 LET message == DictGet(error.obj, "message", UnknownError)
                     error_type == DictGet(error.obj, "type", JNull)
                 IN  IF error_type = JStr(<<"insufficient_credits">>)
                     THEN Raises("InsufficientCreditsError",
                            [message |-> message,
                             credits_required |->
                                 DictGet(error.obj, "credits_required", JNum(0)),
                             credits_remaining |->
                                 DictGet(error.obj, "credits_remaining", JNum(0))])
                     ELSE IF error_type = JStr(<<"rate_limit_exceeded">>)
                     THEN Raises("RateLimitError",
                            [message |-> message,
                             retry_after |->
                                 DictGet(error.obj, "retry_after", JNull)])
                     ELSE IF error_type = JStr(<<"band_access_denied">>)
                     THEN Raises("BandAccessDeniedError",
                            [message |-> message,
                             band |-> DictGet(error.obj, "band", JNull),
                             required_tier |->
                                 DictGet(error.obj, "required_tier", JNull),
                             current_tier |->
                                 DictGet(error.obj, "current_tier", JNull)])
                     ELSE generic(message)

\* a failed response whose body is not JSON ("none") or is
\* {"error": {"type": error_type}}
ErrorResponse(status_code, error_type) ==
    [status_code |-> status_code,
     headers |-> EmptyDict,
     body |-> IF error_type = "none" THEN NotJSONBody
              ELSE JSONBody(JObj([error |->
                       JObj([type |-> JStr(<<error_type>>)])]))]

\* the exception handle_response raises for the failed response of
\* invocation i of the work
handle_response(response, i) ==
    Exc(handle_response_outcome(response, None).cls, response.status_code, i)

\* ---------------------------------------------------------------------
\* State
\* ---------------------------------------------------------------------
VARIABLES
    config,          \* the RetryConfig of the call
    mode,            \* "sync": with_retry's wrapper, "async": async_with_retry
    pc,              \* position of the call: "loop", "in_work", "sleeping", "done"
    attempt,         \* local `attempt`
    last_exception,  \* local `last_exception`
    history,         \* outcome of every finished invocation of the work
    waits,           \* every backoff sleep requested: attempt index and delay
    consults,        \* number of calls of config.should_retry
    cancelled,       \* the awaiting task has been cancelled
    result,          \* what the call gave its caller
    call,            \* last direct call of a RetryConfig method
    parser,          \* the streaming method that is iterating
    lines,           \* the lines iter_lines() has delivered so far
    events,          \* the events yielded so far, with the line they came from
    stream_state,    \* "open", "ended" (line source exhausted) or "raised"
    stream_exc,      \* the exception that ended the stream
    event_type,      \* local `event_type` of messages_stream
    acc,             \* the fields of a StreamAccumulator
    added,           \* the chunks added since construction or the last reset
    out,             \* what the last get_message() / get_content() returned
    was_reset,       \* reset() has been called on an accumulator holding chunks
    http_call,       \* the arguments of the last handle_response call
    http_out,        \* what that call returned or raised
    requests,        \* the ChatRequest objects alive; 1 is the caller's
    req_op,          \* the last operation on a ChatRequest
    suspended,       \* the locals of the retried calls that are not running
    running          \* which retried call the local variables belong to

sse_vars == <<parser, lines, events, stream_state, stream_exc, event_type>>

acc_vars == <<acc, added, out, was_reset>>

http_vars == <<http_call, http_out>>

req_vars == <<requests, req_op>>

conc_vars == <<suspended, running>>

vars == <<config, mode, pc, attempt, last_exception, history, waits,
          consults, cancelled, result, call, sse_vars, acc_vars,
          http_vars, req_vars, conc_vars>>

retry_vars == <<mode, pc, attempt, last_exception, history, waits,
                consults, cancelled, result>>

\* no streaming method is iterating
SSEIdle ==
    /\ parser = "none"
    /\ lines = <<>>
    /\ events = <<>>
    /\ stream_state = "idle"
    /\ stream_exc = NoException
    /\ event_type = None

\* StreamAccumulator.__init__
NewAccumulator ==
    [id |-> None, object |-> None, created |-> None, model |-> None,
     content_parts |-> <<>>, role |-> None, finish_reason |-> None,
     tool_calls |-> <<>>]

NoOutput == [fn |-> "none"]

AccIdle ==
    /\ acc = NewAccumulator
    /\ added = <<>>
    /\ out = NoOutput
    /\ was_reset = FALSE

\* handle_response has not been called
NoHttpCall == [fn |-> "none"]
NoOutcome == [kind |-> "none"]

HttpIdle ==
    /\ http_call = NoHttpCall
    /\ http_out = NoOutcome

\* no ChatRequest has been made
NoReqOp == [op |-> "none"]

ReqIdle ==
    /\ requests = <<>>
    /\ req_op = NoReqOp

\* one retried call, and no other
ConcIdle ==
    /\ suspended = <<>>
    /\ running = 1

NoResult == [kind |-> "none", value |-> 0, exc |-> NoException]
NoCall == [fn |-> "none", attempt |-> 0, exc |-> NoException,
           r |-> Rat(0, 1), out |-> FALSE, delay |-> Rat(0, 1)]

\* status codes of the responses the modelled work receives
WorkStatusCodes == {400, 429, 503}
\* body shapes of the failed responses the modelled work hands to
\* handle_response
WorkErrorTypes == {"none", "rate_limit_exceeded"}

\* the exceptions invocation i of the work can raise: httpx transport
\* failures, the HTTPStatusError of response.raise_for_status(), the
\* classified error of handle_response, and an unrelated exception
WorkExceptions(i) ==
    {Exc(c, 0, i) : c \in {"ConnectError", "ReadTimeout", "ValueError"}}
    \cup {Exc("HTTPStatusError", s, i) : s \in WorkStatusCodes}
    \cup {handle_response(ErrorResponse(s, t), i) :
            s \in WorkStatusCodes, t \in WorkErrorTypes}

\* the configurations of the modelled retried calls; DefaultRetryConfig is
\* what `config is None` resolves to
RetryConfigs ==
    {DefaultRetryConfig}
    \cup [max_retries : 0..MaxRetriesBound,
          initial_delay : {Rat(1, 1)},
          max_delay : {Rat(3, 1)},
          exponential_base : {Rat(2, 1)},
          jitter : BOOLEAN,
          retry_on_status_codes : {{}, {400, 503}, DefaultStatusCodes}]

RetryInit ==
    /\ mode \in {"sync", "async"}
    /\ pc = "loop"
    /\ attempt = 0
    /\ last_exception = NoException
    /\ history = <<>>
    /\ waits = <<>>
    /\ consults = 0
    /\ cancelled = FALSE
    /\ result = NoResult

Init ==
    /\ config \in RetryConfigs
    /\ RetryInit
    /\ call = NoCall
    /\ SSEIdle
    /\ AccIdle
    /\ HttpIdle
    /\ ReqIdle
    /\ ConcIdle

\* number of times the work has been invoked
Invocations == Len(history) + (IF pc = "in_work" THEN 1 ELSE 0)

\* ---------------------------------------------------------------------
\* The retry loop of with_retry's wrapper and of async_with_retry
\* ---------------------------------------------------------------------
\* `while attempt <= config.max_retries`
LoopCond_Strict(a, cfg) == a < cfg.max_retries

LoopCond(a, cfg) == a <= cfg.max_retries

\* the bare `raise` of the except clause propagates the caught object
Reraise_Wrapped(e) == Exc("RetryError", e.status_code, 0)

Reraise(e) == e

\* the loop test; when it fails the call falls through to
\* `if last_exception: raise last_exception` and else returns None
WhileTest ==
    /\ pc = "loop"
    /\ IF LoopCond(attempt, config)
       THEN /\ pc' = "in_work"
            /\ UNCHANGED result
       ELSE /\ pc' = "done"
            /\ result' = IF last_exception # NoException
                         THEN [kind |-> "raised", value |-> 0,
                               exc |-> last_exception]
                         ELSE [kind |-> "returned", value |-> 0,
                               exc |-> NoException]
    /\ UNCHANGED <<config, mode, attempt, last_exception, history, waits,
                   consults, cancelled, call, sse_vars, acc_vars,
                   http_vars, req_vars, conc_vars>>

\* `return func(*args, **kwargs)`: the work returns its value (the value
\* is identified by the invocation that produced it)
WorkReturns ==
    /\ pc = "in_work"
    /\ history' = Append(history, [kind |-> "returned",
                                   value |-> Len(history) + 1,
                                   exc |-> NoException])
    /\ result' = [kind |-> "returned", value |-> Len(history) + 1,
                  exc |-> NoException]
    /\ pc' = "done"
    /\ UNCHANGED <<config, mode, attempt, last_exception, waits, consults,
                   cancelled, call, sse_vars, acc_vars,
                   http_vars, req_vars, conc_vars>>

\* the body of `except Exception as e` up to the call of sleep
ExceptHandler_NextIndex(e) ==
    /\ last_exception' = e
    /\ consults' = consults + 1
    /\ IF ~should_retry(config, e, attempt)
       THEN /\ result' = [kind |-> "raised", value |-> 0, exc |-> Reraise(e)]
            /\ pc' = "done"
            /\ UNCHANGED waits
       ELSE /\ \E r \in JitterDraws :
                waits' = Append(waits,
                    [attempt |-> attempt + 1,
                     delay |-> calculate_delay(config, attempt + 1, r)])
            /\ pc' = "sleeping"
            /\ UNCHANGED result

ExceptHandler_AsyncNextIndex(e) ==
    /\ last_exception' = e
    /\ consults' = consults + 1
    /\ IF ~should_retry(config, e, attempt)
       THEN /\ result' = [kind |-> "raised", value |-> 0, exc |-> Reraise(e)]
            /\ pc' = "done"
            /\ UNCHANGED waits
       ELSE /\ \E r \in JitterDraws :
                LET a == IF mode = "async" THEN attempt + 1 ELSE attempt
                IN  waits' = Append(waits,
                        [attempt |-> a,
                         delay |-> calculate_delay(config, a, r)])
            /\ pc' = "sleeping"
            /\ UNCHANGED result

ExceptHandler(e) ==
    /\ last_exception' = e
    /\ consults' = consults + 1
    /\ IF ~should_retry(config, e, attempt)
       THEN /\ result' = [kind |-> "raised", value |-> 0, exc |-> Reraise(e)]
            /\ pc' = "done"
            /\ UNCHANGED waits
       ELSE /\ \E r \in JitterDraws :
                waits' = Append(waits,
                    [attempt |-> attempt,
                     delay |-> calculate_delay(config, attempt, r)])
            /\ pc' = "sleeping"
            /\ UNCHANGED result

\* an exception e leaves the `try` block
LeavesTry(e) ==
    /\ history' = Append(history, [kind |-> "raised", value |-> 0, exc |-> e])
    /\ IF CaughtByExcept(e)
       THEN ExceptHandler(e)
       ELSE /\ result' = [kind |-> "raised", value |-> 0, exc |-> e]
            /\ pc' = "done"
            /\ UNCHANGED <<last_exception, consults, waits>>

\* the work raises
WorkRaises ==
    /\ pc = "in_work"
    /\ \E e \in WorkExceptions(Len(history) + 1) : LeavesTry(e)
    /\ UNCHANGED <<config, mode, attempt, cancelled, call, sse_vars, acc_vars,
                   http_vars, req_vars, conc_vars>>

\* time.sleep(delay) / await asyncio.sleep(delay) returns; `attempt += 1`
SleepReturns ==
    /\ pc = "sleeping"
    /\ attempt' = attempt + 1
    /\ pc' = "loop"
    /\ UNCHANGED <<config, mode, last_exception, history, waits, consults,
                   cancelled, result, call, sse_vars, acc_vars,
                   http_vars, req_vars, conc_vars>>

\* the task awaiting async_with_retry is cancelled while suspended in
\* `await func(...)`: CancelledError is raised inside the try block
CancelInWork ==
    /\ mode = "async"
    /\ pc = "in_work"
    /\ cancelled' = TRUE
    /\ LeavesTry(Exc("CancelledError", 0, Len(history) + 1))
    /\ UNCHANGED <<config, mode, attempt, call, sse_vars, acc_vars,
                   http_vars, req_vars, conc_vars>>

\* ... or while suspended in `await asyncio.sleep(delay)`: CancelledError
\* is raised inside the except clause and leaves the function
CancelInSleep ==
    /\ mode = "async"
    /\ pc = "sleeping"
    /\ cancelled' = TRUE
    /\ result' = [kind |-> "raised", value |-> 0,
                  exc |-> Exc("CancelledError", 0, 0)]
    /\ pc' = "done"
    /\ UNCHANGED <<config, mode, attempt, last_exception, history, waits,
                   consults, call, sse_vars, acc_vars,
                   http_vars, req_vars, conc_vars>>

Next ==
    \/ WhileTest
    \/ WorkReturns
    \/ WorkRaises
    \/ SleepReturns
    \/ CancelInWork
    \/ CancelInSleep

Spec == Init /\ [][Next]_vars

\* every invocation of the work terminates and every sleep returns
LiveSpec == Init /\ [][Next]_vars /\ WF_vars(Next)

\* ---------------------------------------------------------------------
\* Retried calls with any max_retries
\* ---------------------------------------------------------------------
\* RetryConfig.__init__ stores max_retries as given, negative values too
AnyRetryConfigs ==
    RetryConfigs
    \cup [max_retries : {-2, -1},
          initial_delay : {Rat(1, 1)},
          max_delay : {Rat(3, 1)},
          exponential_base : {Rat(2, 1)},
          jitter : BOOLEAN,
          retry_on_status_codes : {{}, {400, 503}, DefaultStatusCodes}]

AnyConfigInit ==
    /\ config \in AnyRetryConfigs
    /\ RetryInit
    /\ call = NoCall
    /\ SSEIdle
    /\ AccIdle
    /\ HttpIdle
    /\ ReqIdle
    /\ ConcIdle

AnyConfigSpec == AnyConfigInit /\ [][Next]_vars

\* ---------------------------------------------------------------------
\* Two retried calls that share one RetryConfig and run concurrently.
\* attempt, last_exception and the position are locals of each call
\* (with the bookkeeping of the call); the locals of the call that is not
\* running are kept in `suspended`, and a switch can happen between any
\* two steps.
\* ---------------------------------------------------------------------
Locals ==
    [mode |-> mode, pc |-> pc, attempt |-> attempt,
     last_exception |-> last_exception, history |-> history,
     waits |-> waits, consults |-> consults, cancelled |-> cancelled,
     result |-> result]

\* the locals of a call that has not started: `attempt = 0`,
\* `last_exception = None`
NewLocals(m) ==
    [mode |-> m, pc |-> "loop", attempt |-> 0,
     last_exception |-> NoException, history |-> <<>>, waits |-> <<>>,
     consults |-> 0, cancelled |-> FALSE, result |-> NoResult]

\* the configurations the concurrent calls share
SharedConfigs ==
    [max_retries : {0, 1},
     initial_delay : {Rat(1, 1)},
     max_delay : {Rat(3, 1)},
     exponential_base : {Rat(2, 1)},
     jitter : BOOLEAN,
     retry_on_status_codes : {{400, 503}}]

ConcInit ==
    /\ config \in SharedConfigs
    /\ RetryInit
    /\ call = NoCall
    /\ SSEIdle
    /\ AccIdle
    /\ HttpIdle
    /\ ReqIdle
    /\ suspended \in {<<NewLocals(m)>> : m \in {"sync", "async"}}
    /\ running = 1

\* the scheduler runs the other call: each call keeps its own locals
Switch_SharedLocals ==
    /\ suspended # <<>>
    /\ mode' = suspended[1].mode
    /\ pc' = suspended[1].pc
    /\ history' = suspended[1].history
    /\ waits' = suspended[1].waits
    /\ consults' = suspended[1].consults
    /\ cancelled' = suspended[1].cancelled
    /\ result' = suspended[1].result
    /\ suspended' = <<Locals>>
    /\ running' = 3 - running
    /\ UNCHANGED <<attempt, last_exception, config, call, sse_vars, acc_vars,
                   http_vars, req_vars>>

Switch ==
    /\ suspended # <<>>
    /\ mode' = suspended[1].mode
    /\ pc' = suspended[1].pc
    /\ attempt' = suspended[1].attempt
    /\ last_exception' = suspended[1].last_exception
    /\ history' = suspended[1].history
    /\ waits' = suspended[1].waits
    /\ consults' = suspended[1].consults
    /\ cancelled' = suspended[1].cancelled
    /\ result' = suspended[1].result
    /\ suspended' = <<Locals>>
    /\ running' = 3 - running
    /\ UNCHANGED <<config, call, sse_vars, acc_vars, http_vars, req_vars>>

ConcNext ==
    \/ Next
    \/ Switch

ConcSpec == ConcInit /\ [][ConcNext]_vars

\* ---------------------------------------------------------------------
\* Direct calls of the RetryConfig methods on arbitrary arguments
\* ---------------------------------------------------------------------
StatusCodes == {400, 404, 429, 500, 502, 503, 504}

FnExceptions ==
    {Exc(c, 0, 0) : c \in {"ConnectError", "ReadTimeout", "ProtocolError",
                           "ValueError", "CancelledError"}}
    \cup {Exc(c, s, 0) : c \in {"HTTPStatusError", "APIError", "RateLimitError"},
                         s \in StatusCodes}

FnConfigs ==
    {DefaultRetryConfig}
    \cup [max_retries : (-1)..MaxRetriesBound,
          initial_delay : {Rat(0, 1), Rat(1, 2), Rat(1, 1), Rat(3, 1)},
          max_delay : {Rat(2, 1), Rat(60, 1)},
          exponential_base : {Rat(1, 2), Rat(1, 1), Rat(3, 2), Rat(2, 1)},
          jitter : BOOLEAN,
          retry_on_status_codes : {{}, {400, 503}, DefaultStatusCodes}]

FnInit ==
    /\ config \in FnConfigs
    /\ RetryInit
    /\ mode = "sync"
    /\ call = NoCall
    /\ SSEIdle
    /\ AccIdle
    /\ HttpIdle
    /\ ReqIdle
    /\ ConcIdle

\* config.calculate_delay(a)
CallCalculateDelay ==
    /\ \E a \in 0..MaxAttemptArg, r \in JitterDraws :
        call' = [fn |-> "calculate_delay", attempt |-> a, exc |-> NoException,
                 r |-> r, out |-> FALSE,
                 delay |-> calculate_delay(config, a, r)]
    /\ UNCHANGED <<config, retry_vars, sse_vars, acc_vars,
                   http_vars, req_vars, conc_vars>>

\* config.should_retry(e, a)
CallShouldRetry ==
    /\ \E e \in FnExceptions, a \in 0..MaxAttemptArg :
        call' = [fn |-> "should_retry", attempt |-> a, exc |-> e,
                 r |-> Rat(0, 1), out |-> should_retry(config, e, a),
                 delay |-> Rat(0, 1)]
    /\ UNCHANGED <<config, retry_vars, sse_vars, acc_vars,
                   http_vars, req_vars, conc_vars>>

FnNext ==
    \/ CallCalculateDelay
    \/ CallShouldRetry

FnSpec == FnInit /\ [][FnNext]_vars

\* ---------------------------------------------------------------------
\* Properties
\* ---------------------------------------------------------------------
\* a retry-eligible error of configuration cfg: a network error, a timeout,
\* or an httpx HTTP-status failure whose status is in retry_on_status_codes
EligibleError(cfg, e) ==
    \/ e.cls \in {"ConnectError", "ReadTimeout"}
    \/ e.cls = "HTTPStatusError" /\ e.status_code \in cfg.retry_on_status_codes

LastOutcome == history[Len(history)]

AllEligibleFailures(n) ==
    \A i \in 1..n : /\ history[i].kind = "raised"
                    /\ EligibleError(config, history[i].exc)

\* C1: the work is never invoked more than max_retries + 1 times; a call
\* that returns returns the value of its last invocation, reached after k
\* retry-eligible failures and k + 1 invocations; and a call is never given
\* up on a retry-eligible error before invocation max_retries + 1.
C1_InvocationCount ==
    /\ Invocations <= config.max_retries + 1
    /\ (pc = "done" /\ result.kind = "returned") =>
          /\ history # <<>>
          /\ LastOutcome.kind = "returned"
          /\ result.value = LastOutcome.value
          /\ result.value = Len(history)
          /\ AllEligibleFailures(Len(history) - 1)
    /\ (pc = "done" /\ result.kind = "raised" /\ ~cancelled
            /\ EligibleError(config, result.exc)) =>
          Len(history) = config.max_retries + 1

C1_Witness ==
    /\ pc = "done"
    /\ result.kind = "returned"
    /\ config.max_retries = 3
    /\ Len(history) = 4
    /\ \A i \in 1..3 : /\ history[i].exc.cls = "HTTPStatusError"
                       /\ history[i].exc.status_code = 503

\* C2: a call never ends by raising a classified failure of handle_response
\* (APIError, RateLimitError) whose status is in retry_on_status_codes while
\* attempt < max_retries: such a failure is retried.
C2_ClassifiedFailureRetried ==
    (/\ pc = "done"
     /\ result.kind = "raised"
     /\ result.exc.cls \in {"APIError", "RateLimitError"}
     /\ result.exc.status_code \in config.retry_on_status_codes)
        => attempt >= config.max_retries

\* C3: a finished call gave its caller either the value the last invocation
\* returned or the very exception object the last invocation raised; in
\* particular after max_retries + 1 failed invocations the caller gets the
\* exception of invocation max_retries + 1, not a wrapper.
C3_LastExceptionUnchanged ==
    pc = "done" =>
        /\ result.kind \in {"returned", "raised"}
        /\ history # <<>>
        /\ result.kind = "returned" =>
              /\ LastOutcome.kind = "returned"
              /\ result.value = LastOutcome.value
        /\ (result.kind = "raised" /\ ~cancelled) =>
              /\ LastOutcome.kind = "raised"
              /\ result.exc = LastOutcome.exc
              /\ result.exc.id = Len(history)
        /\ (result.kind = "raised" /\ cancelled) =>
              result.exc.cls = "CancelledError"

C3_Witness ==
    /\ pc = "done"
    /\ result.kind = "raised"
    /\ config.max_retries >= 2
    /\ Len(history) = config.max_retries + 1
    /\ AllEligibleFailures(Len(history))
    /\ result.exc.id = config.max_retries + 1

\* C4: when an invocation raises an exception that is not retry-eligible,
\* the same step ends the call with that exception, requests no wait and
\* leaves attempt alone; a finished call never invokes the work again.
C4_ImmediateReraise ==
    [][ /\ (/\ pc = "in_work"
            /\ ~cancelled'
            /\ Len(history') = Len(history) + 1
            /\ history'[Len(history')].kind = "raised"
            /\ ~EligibleError(config, history'[Len(history')].exc))
           => /\ pc' = "done"
              /\ result'.kind = "raised"
              /\ result'.exc = history'[Len(history')].exc
              /\ waits' = waits
              /\ attempt' = attempt
        /\ pc = "done" => (pc' = "done" /\ history' = history)
      ]_vars

C4_Witness ==
    /\ pc = "done"
    /\ result.kind = "raised"
    /\ result.exc.cls = "HTTPStatusError"
    /\ result.exc.status_code = 400
    /\ 400 \notin config.retry_on_status_codes
    /\ Len(history) = 3
    /\ attempt = 2
    /\ attempt < config.max_retries
    /\ Len(waits) = 2

\* C5: should_retry(e, a) is true exactly when a < max_retries and e is a
\* network error, a timeout, or an HTTP-status failure with a status in
\* retry_on_status_codes.
C5_ShouldRetryExact ==
    call.fn = "should_retry" =>
        (call.out <=> (/\ call.attempt < config.max_retries
                       /\ EligibleError(config, call.exc)))

C5_Witness ==
    /\ call.fn = "should_retry"
    /\ call.out
    /\ call.exc.cls = "ReadTimeout"
    /\ config.retry_on_status_codes = {}
    /\ call.attempt = config.max_retries - 1
    /\ call.attempt >= 1

\* C6: no wait precedes the first invocation; every wait follows a failed
\* retry-eligible invocation and precedes the next one; a call that ran to
\* its end made one wait less than invocations; wait i (0-indexed) is the
\* delay calculate_delay gives for attempt index i.
C6_WaitsBetweenInvocations ==
    /\ Invocations = 0 => waits = <<>>
    /\ pc = "in_work" => Len(waits) = Invocations - 1
    /\ pc = "sleeping" =>
          /\ Len(waits) = Invocations
          /\ LastOutcome.kind = "raised"
          /\ EligibleError(config, LastOutcome.exc)
    /\ (pc = "done" /\ ~cancelled) => Len(waits) = Invocations - 1
    /\ \A i \in 1..Len(waits) :
          /\ waits[i].attempt = i - 1
          /\ \E r \in JitterDraws :
                REq(waits[i].delay, calculate_delay(config, i - 1, r))

C6_Witness ==
    /\ pc = "done"
    /\ ~cancelled
    /\ Len(history) = 3
    /\ Len(waits) = 2
    /\ ~REq(waits[1].delay, waits[2].delay)

\* the delay without jitter, as the claims state it
Unjittered(cfg, a) ==
    LET raw == RMul(cfg.initial_delay, RPow(cfg.exponential_base, a))
    IN  IF RLeq(raw, cfg.max_delay) THEN raw ELSE cfg.max_delay

\* C7: without jitter calculate_delay(a) is min(initial_delay *
\* exponential_base^a, max_delay); it never exceeds max_delay and, for
\* exponential_base >= 1, calculate_delay(a) <= calculate_delay(a + 1).
C7_DelayWithoutJitter ==
    (call.fn = "calculate_delay" /\ ~config.jitter) =>
        /\ REq(call.delay, Unjittered(config, call.attempt))
        /\ RLeq(call.delay, config.max_delay)
        /\ RLeq(Rat(1, 1), config.exponential_base) =>
              RLeq(call.delay, calculate_delay(config, call.attempt + 1, call.r))

C7_Witness ==
    /\ call.fn = "calculate_delay"
    /\ ~config.jitter
    /\ call.attempt = 3
    /\ config.exponential_base = Rat(3, 2)
    /\ config.initial_delay = Rat(1, 1)
    /\ REq(call.delay, config.max_delay)

\* C8: with jitter calculate_delay(a) lies between half the un-jittered
\* delay and the un-jittered delay, so never above max_delay.
C8_DelayWithJitter ==
    (call.fn = "calculate_delay" /\ config.jitter) =>
        /\ RLeq(call.delay, Unjittered(config, call.attempt))
        /\ RLeq(RMul(Rat(1, 2), Unjittered(config, call.attempt)), call.delay)
        /\ RLeq(call.delay, config.max_delay)

C8_Witness ==
    /\ call.fn = "calculate_delay"
    /\ config.jitter
    /\ call.attempt = 2
    /\ call.r # Rat(0, JitterSteps)
    /\ config.initial_delay = Rat(1, 1)
    /\ ~REq(call.delay, Unjittered(config, call.attempt))
    /\ ~REq(call.delay, RMul(Rat(1, 2), Unjittered(config, call.attempt)))

\* C9: the step that cancels the awaiting task ends the call with the
\* CancelledError, without consulting should_retry, recording the
\* cancellation as a failure or requesting a wait; afterwards the work is
\* never invoked again.
C9_CancellationAborts ==
    [][ /\ (cancelled' /\ ~cancelled) =>
              /\ pc' = "done"
              /\ result'.kind = "raised"
              /\ result'.exc.cls = "CancelledError"
              /\ consults' = consults
              /\ last_exception' = last_exception
              /\ waits' = waits
              /\ attempt' = attempt
        /\ cancelled => (pc' = pc /\ history' = history)
      ]_vars

C9_Witness ==
    /\ cancelled
    /\ pc = "done"
    /\ Len(history) = 2
    /\ LastOutcome.exc.cls = "CancelledError"
    /\ consults = 1
    /\ attempt < config.max_retries

\* C10: every call eventually finishes, and no call ever requests more
\* than max_retries backoff waits.
C10_Terminates ==
    /\ <>(pc = "done")
    /\ [](Len(waits) <= config.max_retries)

C10_Witness ==
    /\ pc = "done"
    /\ result.kind = "raised"
    /\ config.max_retries >= 2
    /\ Len(waits) = config.max_retries
    /\ AllEligibleFailures(Len(history))
    /\ Len(history) = config.max_retries + 1

\* ---------------------------------------------------------------------
\* SSE line parsers.  A line is a sequence of tokens: " " is one
\* whitespace character, "data:" and "event:" the field prefixes,
\* "[DONE]" the terminator literal, the other tokens stand for texts
\* without whitespace.
\* ---------------------------------------------------------------------
RECURSIVE lstrip(_)
lstrip(l) == IF l # <<>> /\ Head(l) = " " THEN lstrip(Tail(l)) ELSE l

RECURSIVE rstrip(_)
rstrip(l) ==
    IF l # <<>> /\ l[Len(l)] = " " THEN rstrip(SubSeq(l, 1, Len(l) - 1)) ELSE l

\* str.strip()
strip(l) == rstrip(lstrip(l))

\* str.startswith(prefix)
startswith(l, prefix) ==
    /\ Len(l) >= Len(prefix)
    /\ SubSeq(l, 1, Len(prefix)) = prefix

\* line[len(prefix):]
after(l, prefix) == SubSeq(l, Len(prefix) + 1, Len(l))

DataPrefix == <<"data:">>
EventPrefix == <<"event:">>
\* the literal "data: [DONE]"
DoneLine == <<"data:", " ", "[DONE]">>

\* the texts that are JSON documents, with the value json.loads gives:
\* J1, J2 are chat chunk objects, A1 is an Anthropic stream event object,
\* INV an object without the fields of either, NUM a JSON number
JSONDocs == {"J1", "J2", "A1", "INV", "NUM"}

JSONValue(t) ==
    CASE t \in {"J1", "J2"} ->
            [kind |-> "object", src |-> t,
             keys |-> {"id", "object", "created", "model", "choices"}]
      [] t = "A1" -> [kind |-> "object", src |-> t, keys |-> {"type", "index"}]
      [] t = "INV" -> [kind |-> "object", src |-> t, keys |-> {"object"}]
      [] OTHER -> [kind |-> "number", src |-> t, keys |-> {}]

\* json.loads(payload): a value, or JSONDecodeError for every text that is
\* not exactly one JSON document (partial JSON, "[DONE]", plain text,
\* two documents)
json_loads(payload) ==
    IF Len(payload) = 1 /\ payload[1] \in JSONDocs
    THEN [ok |-> TRUE, data |-> JSONValue(payload[1])]
    ELSE [ok |-> FALSE, data |-> JSONValue("NUM")]

\* the required fields of the pydantic models
RequiredFields(model) ==
    IF model = "ChatChunk"
    THEN {"id", "object", "created", "model", "choices"}
    ELSE {"type"}

\* Model(**data): the object, TypeError when data is not a mapping,
\* ValidationError when a required field is missing
Construct(model, data) ==
    IF data.kind # "object"
    THEN [ok |-> FALSE, cls |-> "TypeError", obj |-> "none"]
    ELSE IF RequiredFields(model) \subseteq data.keys
    THEN [ok |-> TRUE, cls |-> "None", obj |-> data.src]
    ELSE [ok |-> FALSE, cls |-> "ValidationError", obj |-> "none"]

\* what one iteration of the `for line` loop does
Skip(et) == [act |-> "skip", obj |-> "none", cls |-> "None", event_type |-> et]
Yield(o, et) == [act |-> "yield", obj |-> o, cls |-> "None", event_type |-> et]
Raise(c, et) == [act |-> "raise", obj |-> "none", cls |-> c, event_type |-> et]

\* the loop body of ZaguanClient.chat_stream and of
\* AsyncZaguanClient.chat_stream (zaguan_sdk)
chat_stream_line_NoSkip(raw, et) ==
    LET line == strip(raw)
    IN  IF line = <<>> \/ line = DoneLine THEN Skip(et)
        ELSE IF startswith(line, DataPrefix)
        THEN LET payload == strip(after(line, DataPrefix))
             IN  IF payload = <<>> THEN Skip(et)
                 ELSE LET d == json_loads(payload)
                      IN  IF ~d.ok THEN Raise("ZaguanError", et)
                          ELSE LET c == Construct("ChatChunk", d.data)
                               IN  IF c.ok THEN Yield(c.obj, et)
                                   ELSE Raise("ZaguanError", et)
        ELSE Skip(et)

chat_stream_line_NoStrip(raw, et) ==
    LET line == raw
    IN  IF line = <<>> \/ line = DoneLine THEN Skip(et)
        ELSE IF startswith(line, DataPrefix)
        THEN LET payload == strip(after(line, DataPrefix))
             IN  IF payload = <<>> THEN Skip(et)
                 ELSE LET d == json_loads(payload)
                      IN  IF ~d.ok THEN Skip(et)
                          ELSE LET c == Construct("ChatChunk", d.data)
                               IN  IF c.ok THEN Yield(c.obj, et)
                                   ELSE Raise("ZaguanError", et)
        ELSE Skip(et)

chat_stream_line(raw, et) ==
    LET line == strip(raw)
    IN  IF line = <<>> \/ line = DoneLine THEN Skip(et)
        ELSE IF startswith(line, DataPrefix)
        THEN LET payload == strip(after(line, DataPrefix))
             IN  IF payload = <<>> THEN Skip(et)
                 ELSE LET d == json_loads(payload)
                      IN  IF ~d.ok THEN Skip(et)
                          ELSE LET c == Construct("ChatChunk", d.data)
                               IN  IF c.ok THEN Yield(c.obj, et)
                                   ELSE Raise("ZaguanError", et)
        ELSE Skip(et)

\* the loop body of ZaguanClient.messages_stream and of
\* AsyncZaguanClient.messages_stream
messages_stream_line(raw, et) ==
    LET line == strip(raw)
    IN  IF line = <<>> THEN Skip(et)
        ELSE IF startswith(line, EventPrefix)
        THEN Skip(Some(strip(after(line, EventPrefix))))
        ELSE IF startswith(line, DataPrefix)
        THEN LET payload == strip(after(line, DataPrefix))
             IN  IF payload = <<>> THEN Skip(et)
                 ELSE LET d == json_loads(payload)
                      IN  IF ~d.ok THEN Skip(et)
                          ELSE LET c == Construct("AnthropicMessagesStreamEvent",
                                                  d.data)
                               IN  IF c.ok THEN Yield(c.obj, et)
                                   ELSE Raise("ZaguanError", et)
        ELSE Skip(et)

\* the loop body of the chat_stream of the older zaguan package: the line
\* is not stripped, an empty payload is handed to json.loads, and only
\* JSONDecodeError is caught
legacy_chat_stream_line(raw, et) ==
    IF raw = <<>> \/ startswith(raw, DoneLine) THEN Skip(et)
    ELSE IF startswith(raw, DataPrefix)
    THEN LET payload == strip(after(raw, DataPrefix))
             d == json_loads(payload)
         IN  IF ~d.ok THEN Skip(et)
             ELSE LET c == Construct("ChatChunk", d.data)
                  IN  IF c.ok THEN Yield(c.obj, et)
                      ELSE Raise(c.cls, et)
    ELSE Skip(et)

Parsers == {"chat_stream", "async_chat_stream", "messages_stream",
            "async_messages_stream", "legacy_chat_stream"}

ChatParsers == {"chat_stream", "async_chat_stream"}

ProcessLine(p, raw, et) ==
    CASE p \in ChatParsers -> chat_stream_line(raw, et)
      [] p \in {"messages_stream", "async_messages_stream"} ->
            messages_stream_line(raw, et)
      [] OTHER -> legacy_chat_stream_line(raw, et)

\* the lines a modelled response delivers
Lines ==
    { <<>>,
      <<" ">>,
      <<"data:", " ", "[DONE]">>,
      <<"data:", " ", "[DONE]", " ">>,
      <<"data:", "[DONE]">>,
      <<"data:", " ", "J1">>,
      <<" ", "data:", "J2", " ">>,
      <<"data:", " ", "A1">>,
      <<"data:", " ", "BAD">>,
      <<"data:", " ", "J1", " ", "J2">>,
      <<"data:", " ", "INV">>,
      <<"data:", " ", "NUM">>,
      <<"data:", " ">>,
      <<"event:", " ", "x">>,
      <<"x", " ", "BAD">>,
      <<"J1">> }

SSEInit ==
    /\ config = DefaultRetryConfig
    /\ RetryInit
    /\ mode = "sync"
    /\ call = NoCall
    /\ AccIdle
    /\ HttpIdle
    /\ ReqIdle
    /\ ConcIdle
    /\ parser \in Parsers
    /\ lines = <<>>
    /\ events = <<>>
    /\ stream_state = "open"
    /\ stream_exc = NoException
    /\ event_type = None

\* iter_lines() delivers one more line and the loop body runs on it
NextLine ==
    /\ stream_state = "open"
    /\ Len(lines) < MaxLines
    /\ \E raw \in Lines :
        LET o == ProcessLine(parser, raw, event_type)
            n == Len(lines) + 1
        IN  /\ lines' = Append(lines, raw)
            /\ event_type' = o.event_type
            /\ events' = IF o.act = "yield"
                         THEN Append(events, [line_no |-> n, obj |-> o.obj])
                         ELSE events
            /\ stream_state' = IF o.act = "raise" THEN "raised" ELSE "open"
            /\ stream_exc' = IF o.act = "raise" THEN Exc(o.cls, 0, n)
                             ELSE NoException
    /\ UNCHANGED <<parser, config, retry_vars, call, acc_vars,
                   http_vars, req_vars, conc_vars>>

\* iter_lines() is exhausted: the generator returns
EndOfStream ==
    /\ stream_state = "open"
    /\ stream_state' = "ended"
    /\ UNCHANGED <<parser, lines, events, stream_exc, event_type,
                   config, retry_vars, call, acc_vars,
                   http_vars, req_vars, conc_vars>>

\* response.raise_for_status() raises before the first line is read.  The
\* zaguan_sdk methods hand e.response to handle_response, which raises the
\* classified error when the body is available and httpx.ResponseNotRead
\* when the streamed body was never read; the older client lets the
\* HTTPStatusError through.
StatusError ==
    /\ stream_state = "open"
    /\ lines = <<>>
    /\ \E s \in WorkStatusCodes, t \in WorkErrorTypes :
        stream_exc' \in
            IF parser = "legacy_chat_stream"
            THEN {Exc("HTTPStatusError", s, 0)}
            ELSE {handle_response(ErrorResponse(s, t), 0),
                  Exc("ResponseNotRead", 0, 0)}
    /\ stream_state' = "raised"
    /\ UNCHANGED <<parser, lines, events, event_type,
                   config, retry_vars, call, acc_vars,
                   http_vars, req_vars, conc_vars>>

SSENext ==
    \/ NextLine
    \/ EndOfStream
    \/ StatusError

SSESpec == SSEInit /\ [][SSENext]_vars

\* ---------------------------------------------------------------------
\* StreamAccumulator.  A str is a sequence of words (<<>> is ""), so that
\* "".join is concatenation.
\* ---------------------------------------------------------------------
\* truthiness of Optional[str] fields whose value is one word
TruthyStr(o) == o.some /\ o.v # ""
\* truthiness of Optional str-as-words and Optional[List] fields
TruthySeq(o) == o.some /\ o.v # <<>>

\* "".join(parts)
RECURSIVE Join(_)
Join(parts) == IF parts = <<>> THEN <<>> ELSE Head(parts) \o Join(Tail(parts))

\* the statements of the `for choice in chunk.choices` body
AddChoice_Prepend(a, choice) ==
    LET a1 == IF choice.delta.some
              THEN LET dl == choice.delta.v
                       r == IF TruthyStr(dl.role)
                            THEN [a EXCEPT !.role = dl.role] ELSE a
                       c == IF TruthySeq(dl.content)
                            THEN [r EXCEPT !.content_parts =
                                      <<dl.content.v>> \o r.content_parts]
                            ELSE r
                   IN  IF TruthySeq(dl.tool_calls)
                       THEN [c EXCEPT !.tool_calls =
                                 c.tool_calls \o dl.tool_calls.v]
                       ELSE c
              ELSE a
    IN  IF TruthyStr(choice.finish_reason)
        THEN [a1 EXCEPT !.finish_reason = choice.finish_reason]
        ELSE a1

AddChoice_RoleOverwrite(a, choice) ==
    LET a1 == IF choice.delta.some
              THEN LET dl == choice.delta.v
                       r == [a EXCEPT !.role = dl.role]
                       c == IF TruthySeq(dl.content)
                            THEN [r EXCEPT !.content_parts =
                                      Append(r.content_parts, dl.content.v)]
                            ELSE r
                   IN  IF TruthySeq(dl.tool_calls)
                       THEN [c EXCEPT !.tool_calls =
                                 c.tool_calls \o dl.tool_calls.v]
                       ELSE c
              ELSE a
    IN  IF TruthyStr(choice.finish_reason)
        THEN [a1 EXCEPT !.finish_reason = choice.finish_reason]
        ELSE a1

\* tool-call fragments merged by call id: a fragment whose id is already
\* in the list does not become an entry of its own
AddChoice_MergeById(a, choice) ==
    LET a1 == IF choice.delta.some
              THEN LET dl == choice.delta.v
                       r == IF TruthyStr(dl.role)
                            THEN [a EXCEPT !.role = dl.role] ELSE a
                       c == IF TruthySeq(dl.content)
                            THEN [r EXCEPT !.content_parts =
                                      Append(r.content_parts, dl.content.v)]
                            ELSE r
                   IN  IF TruthySeq(dl.tool_calls)
                       THEN [c EXCEPT !.tool_calls =
                                 c.tool_calls \o
                                 SelectSeq(dl.tool_calls.v,
                                     LAMBDA f : \A i \in 1..Len(c.tool_calls) :
                                                   c.tool_calls[i].id # f.id)]
                       ELSE c
              ELSE a
    IN  IF TruthyStr(choice.finish_reason)
        THEN [a1 EXCEPT !.finish_reason = choice.finish_reason]
        ELSE a1

AddChoice(a, choice) ==
    LET a1 == IF choice.delta.some
              THEN LET dl == choice.delta.v
                       r == IF TruthyStr(dl.role)
                            THEN [a EXCEPT !.role = dl.role] ELSE a
                       c == IF TruthySeq(dl.content)
                            THEN [r EXCEPT !.content_parts =
                                      Append(r.content_parts, dl.content.v)]
                            ELSE r
                   IN  IF TruthySeq(dl.tool_calls)
                       THEN [c EXCEPT !.tool_calls =
                                 c.tool_calls \o dl.tool_calls.v]
                       ELSE c
              ELSE a
    IN  IF TruthyStr(choice.finish_reason)
        THEN [a1 EXCEPT !.finish_reason = choice.finish_reason]
        ELSE a1

\* `for choice in chunk.choices`
RECURSIVE AddChoices(_, _)
AddChoices(a, choices) ==
    IF choices = <<>> THEN a
    ELSE AddChoices(AddChoice(a, Head(choices)), Tail(choices))

\* StreamAccumulator.add_chunk
add_chunk_Overwrite(a, chunk) ==
    AddChoices([a EXCEPT !.id = Some(chunk.id),
                         !.object = Some(chunk.object),
                         !.created = Some(chunk.created),
                         !.model = Some(chunk.model)],
               chunk.choices)

add_chunk(a, chunk) ==
    AddChoices(IF ~a.id.some
               THEN [a EXCEPT !.id = Some(chunk.id),
                              !.object = Some(chunk.object),
                              !.created = Some(chunk.created),
                              !.model = Some(chunk.model)]
               ELSE a,
               chunk.choices)

\* StreamAccumulator.get_message: a Message with the fields the call
\* passes; the other declared fields of Message keep their default None
get_message(a) ==
    [role |-> a.role,
     content |-> IF a.content_parts # <<>>
                 THEN Some(Join(a.content_parts)) ELSE None,
     name |-> None,
     tool_call_id |-> None,
     tool_calls |-> IF a.tool_calls # <<>> THEN Some(a.tool_calls) ELSE None,
     function_call |-> None]

\* StreamAccumulator.get_content
get_content(a) == Join(a.content_parts)

\* reconstruct_message_from_stream(chunks)
RECURSIVE AddChunks(_, _)
AddChunks(a, chunks) ==
    IF chunks = <<>> THEN a
    ELSE AddChunks(add_chunk(a, Head(chunks)), Tail(chunks))

reconstruct_message_from_stream(chunks) ==
    get_message(AddChunks(NewAccumulator, chunks))

\* attribute access on a Message: AttributeError for a name the object
\* does not have
AttributeError == [some |-> FALSE, error |-> "AttributeError"]

GetAttr(msg, name) == IF name \in DOMAIN msg THEN msg[name] ELSE AttributeError

\* the chunks of the modelled streams
Delta(role, content, tool_calls) ==
    Some([role |-> role, content |-> content, tool_calls |-> tool_calls])

ChoiceOf(index, delta, finish_reason) ==
    [index |-> index, delta |-> delta, finish_reason |-> finish_reason]

ToolFragments ==
    [a |-> [id |-> "call_1", type |-> "function", name |-> "get_weather"],
     b |-> [id |-> "call_1", type |-> "function", name |-> ""]]

ChoiceLists ==
    { <<>>,
      <<ChoiceOf(0, Delta(Some("assistant"), Some(<<"Hello">>), None), None)>>,
      <<ChoiceOf(0, Delta(None, Some(<<" world">>), None), None)>>,
      <<ChoiceOf(0, Delta(None, None, None), Some("stop"))>>,
      <<ChoiceOf(0, Delta(None, Some(<<>>), None), None)>>,
      <<ChoiceOf(0, Delta(Some("assistant"), None,
                          Some(<<ToolFragments.a>>)), None)>>,
      <<ChoiceOf(0, Delta(None, None,
                          Some(<<ToolFragments.b, ToolFragments.a>>)), None),
        ChoiceOf(1, None, Some("length"))>>,
      <<ChoiceOf(0, Delta(Some("user"), None, Some(<<>>)), None)>> }

Chunks ==
    {[id |-> i[1], object |-> "chat.completion.chunk", created |-> i[2],
      model |-> i[3], choices |-> c] :
        i \in {<<"chatcmpl-1", 1, "m1">>, <<"chatcmpl-2", 2, "m2">>},
        c \in ChoiceLists}

AccInit ==
    /\ config = DefaultRetryConfig
    /\ RetryInit
    /\ mode = "sync"
    /\ call = NoCall
    /\ SSEIdle
    /\ AccIdle
    /\ HttpIdle
    /\ ReqIdle
    /\ ConcIdle

\* accumulator.add_chunk(chunk)
AddChunk ==
    /\ Len(added) < MaxChunks
    /\ \E chunk \in Chunks :
        /\ acc' = add_chunk(acc, chunk)
        /\ added' = Append(added, chunk)
    /\ out' = [fn |-> "add_chunk"]
    /\ UNCHANGED <<was_reset, config, retry_vars, call, sse_vars,
                   http_vars, req_vars, conc_vars>>

\* accumulator.get_message()
GetMessage_AutoReset ==
    /\ out' = [fn |-> "get_message", value |-> get_message(acc)]
    /\ acc' = NewAccumulator
    /\ UNCHANGED <<added, was_reset, config, retry_vars, call, sse_vars,
                   http_vars, req_vars, conc_vars>>

GetMessage ==
    /\ out' = [fn |-> "get_message", value |-> get_message(acc)]
    /\ UNCHANGED <<acc, added, was_reset, config, retry_vars, call, sse_vars,
                   http_vars, req_vars, conc_vars>>

\* accumulator.get_content()
GetContent ==
    /\ out' = [fn |-> "get_content", value |-> get_content(acc)]
    /\ UNCHANGED <<acc, added, was_reset, config, retry_vars, call, sse_vars,
                   http_vars, req_vars, conc_vars>>

\* reconstruct_message_from_stream(chunks) on the list of the chunks of
\* the stream; it works on an accumulator of its own
Reconstruct ==
    /\ out' = [fn |-> "reconstruct_message_from_stream",
               value |-> reconstruct_message_from_stream(added)]
    /\ UNCHANGED <<acc, added, was_reset, config, retry_vars, call, sse_vars,
                   http_vars, req_vars, conc_vars>>

\* accumulator.reset()
Reset_KeepsFinishReason ==
    /\ acc' = [acc EXCEPT !.id = None, !.object = None, !.created = None,
                          !.model = None, !.content_parts = <<>>,
                          !.role = None, !.tool_calls = <<>>]
    /\ added' = <<>>
    /\ was_reset' = (was_reset \/ added # <<>>)
    /\ out' = [fn |-> "reset"]
    /\ UNCHANGED <<config, retry_vars, call, sse_vars,
                   http_vars, req_vars, conc_vars>>

Reset ==
    /\ acc' = [acc EXCEPT !.id = None, !.object = None, !.created = None,
                          !.model = None, !.content_parts = <<>>,
                          !.role = None, !.finish_reason = None,
                          !.tool_calls = <<>>]
    /\ added' = <<>>
    /\ was_reset' = (was_reset \/ added # <<>>)
    /\ out' = [fn |-> "reset"]
    /\ UNCHANGED <<config, retry_vars, call, sse_vars,
                   http_vars, req_vars, conc_vars>>

AccNext ==
    \/ AddChunk
    \/ GetMessage
    \/ GetContent
    \/ Reconstruct
    \/ Reset

AccSpec == AccInit /\ [][AccNext]_vars

\* ---------------------------------------------------------------------
\* Direct calls of handle_response
\* ---------------------------------------------------------------------
HttpStatusCodes == {199, 200, 299, 300, 402, 429, 500}

HttpHeaders == {EmptyDict, [n \in {"X-Request-Id"} |-> "req-1"]}

\* the values of the `error` key of the modelled bodies
ErrorObjects ==
    { JObj(EmptyDict),
      JObj([message |-> JStr(<<"Bad request">>)]),
      JObj([type |-> JStr(<<"invalid_request">>)]),
      JObj([type |-> JStr(<<"invalid_request">>),
            message |-> JStr(<<"Bad request">>)]),
      JObj([type |-> JNum(5), message |-> JStr(<<"Bad request">>)]),
      JObj([type |-> JStr(<<"insufficient_credits">>)]),
      JObj([type |-> JStr(<<"insufficient_credits">>),
            message |-> JStr(<<"Insufficient credits">>),
            credits_required |-> JNum(100), credits_remaining |-> JNum(50)]),
      JObj([type |-> JStr(<<"rate_limit_exceeded">>)]),
      JObj([type |-> JStr(<<"rate_limit_exceeded">>),
            message |-> JStr(<<"Rate limit exceeded">>),
            retry_after |-> JNum(60)]),
      JObj([type |-> JStr(<<"band_access_denied">>)]),
      JObj([type |-> JStr(<<"band_access_denied">>),
            band |-> JStr(<<"premium">>)]),
      JObj([type |-> JStr(<<"band_access_denied">>),
            message |-> JStr(<<"Band access denied">>),
            band |-> JStr(<<"premium">>),
            required_tier |-> JStr(<<"pro">>),
            current_tier |-> JStr(<<"free">>)]) }

NonObjectErrors ==
    {JNull, JStr(<<"Not", "found">>), JNum(5), JArr(<<>>)}

HttpBodies ==
    {NotJSONBody}
    \cup {JSONBody(v) : v \in
            {JNull, JBool(TRUE), JNum(0), JNum(5), JStr(<<>>),
             JStr(<<"oops">>), JStr(<<"an", "error">>),
             JArr(<<>>), JArr(<<JStr(<<"x">>)>>), JArr(<<JStr(<<"error">>)>>),
             JObj(EmptyDict),
             JObj([detail |-> JStr(<<"Not", "found">>)]),
             JObj([id |-> JStr(<<"chatcmpl-1">>), object |-> JStr(<<"x">>),
                   created |-> JNum(1), model |-> JStr(<<"m1">>),
                   choices |-> JArr(<<>>), usage |-> JObj(EmptyDict)])}}
    \cup {JSONBody(JObj([error |-> e])) :
            e \in ErrorObjects \cup NonObjectErrors}

Responses ==
    [status_code : HttpStatusCodes, headers : HttpHeaders, body : HttpBodies]

\* model_class: None, or a pydantic model with its required fields
ModelClasses ==
    {None,
     Some([name |-> "ChatResponse",
           required |-> {"id", "object", "created", "model", "choices",
                         "usage"}])}

HttpInit ==
    /\ config = DefaultRetryConfig
    /\ RetryInit
    /\ mode = "sync"
    /\ call = NoCall
    /\ SSEIdle
    /\ AccIdle
    /\ HttpIdle
    /\ ReqIdle
    /\ ConcIdle

\* handle_response(response, model_class)
HandleResponse ==
    /\ \E response \in Responses, model_class \in ModelClasses :
        /\ http_call' = [fn |-> "handle_response", response |-> response,
                         model_class |-> model_class]
        /\ http_out' = handle_response_outcome(response, model_class)
    /\ UNCHANGED <<config, retry_vars, call, sse_vars, acc_vars,
                   req_vars, conc_vars>>

HttpNext == HandleResponse

HttpSpec == HttpInit /\ [][HttpNext]_vars

\* ---------------------------------------------------------------------
\* ChatRequest.copy and the request chat_stream sends.  A ChatRequest is
\* the record of its fields, each None or Some(v); a dict is a function on
\* its keys.
\* ---------------------------------------------------------------------
RequestFields ==
    {"model", "temperature", "stream", "provider_specific_params",
     "extra_body"}

\* the defaults of the optional fields
FieldDefault(f) == IF f = "stream" THEN Some(FALSE) ELSE None

\* ChatRequest(**data)
ChatRequest(data) ==
    [f \in RequestFields |-> IF f \in DOMAIN data THEN data[f]
                             ELSE FieldDefault(f)]

\* data.get(key) is truthy: the key is there with a non-empty dict
GetTruthy(data, key) ==
    /\ key \in DOMAIN data
    /\ data[key].some
    /\ DOMAIN data[key].v # {}

DelKey(data, key) == [k \in DOMAIN data \ {key} |-> data[k]]

\* ChatRequest.model_dump(**kwargs)
model_dump(req, exclude_none) ==
    LET data == [f \in {g \in RequestFields : ~exclude_none \/ req[g] # None}
                    |-> req[f]]
    IN  IF GetTruthy(data, "extra_body")
           /\ GetTruthy(data, "provider_specific_params")
        THEN LET merged == data["extra_body"].v
                               @@ data["provider_specific_params"].v
             IN  DelKey([data EXCEPT !["provider_specific_params"] =
                                         Some(merged)],
                        "extra_body")
        ELSE IF GetTruthy(data, "extra_body")
        THEN DelKey([k \in DOMAIN data \cup {"provider_specific_params"} |->
                        IF k = "provider_specific_params"
                        THEN data["extra_body"] ELSE data[k]],
                    "extra_body")
        ELSE data

\* ChatRequest.copy
copy(req) == ChatRequest(model_dump(req, FALSE))

\* the requests callers construct
CallerRequests ==
    [model : {Some("openai/gpt-4o")},
     temperature : {None, Some(7)},
     stream : {Some(FALSE), Some(TRUE)},
     provider_specific_params : {None, Some([a |-> 1, b |-> 1])},
     extra_body : {None, Some([k \in {} |-> 0]), Some([b |-> 2])}]

ReqInit ==
    /\ config = DefaultRetryConfig
    /\ RetryInit
    /\ mode = "sync"
    /\ call = NoCall
    /\ SSEIdle
    /\ AccIdle
    /\ HttpIdle
    /\ requests \in {<<r>> : r \in CallerRequests}
    /\ req_op = NoReqOp
    /\ ConcIdle

\* copied = request.copy(): a new object
CopyRequest ==
    /\ Len(requests) < 1 + MaxCopies
    /\ \E k \in 1..Len(requests) :
        /\ requests' = Append(requests, copy(requests[k]))
        /\ req_op' = [op |-> "copy", src |-> k, dst |-> Len(requests) + 1]
    /\ UNCHANGED <<config, retry_vars, call, sse_vars, acc_vars,
                   http_vars, conc_vars>>

\* copied.temperature = v / copied.stream = v on a copy
AssignField ==
    /\ \E k \in 2..Len(requests) :
        \E a \in {<<"temperature", Some(5)>>, <<"stream", Some(TRUE)>>,
                  <<"stream", Some(FALSE)>>} :
            /\ requests' = [requests EXCEPT ![k][a[1]] = a[2]]
            /\ req_op' = [op |-> "assign", dst |-> k, field |-> a[1]]
    /\ UNCHANGED <<config, retry_vars, call, sse_vars, acc_vars,
                   http_vars, conc_vars>>

\* chat_stream(request): the copy with stream = True, and the dict sent
ChatStreamRequest ==
    /\ \E k \in 1..Len(requests) :
        LET stream_request == [copy(requests[k]) EXCEPT !["stream"] = Some(TRUE)]
        IN  req_op' = [op |-> "chat_stream", src |-> k,
                       sent |-> model_dump(stream_request, TRUE)]
    /\ UNCHANGED <<requests, config, retry_vars, call, sse_vars, acc_vars,
                   http_vars, conc_vars>>

ReqNext ==
    \/ CopyRequest
    \/ AssignField
    \/ ChatStreamRequest

ReqSpec == ReqInit /\ [][ReqNext]_vars

\* ---------------------------------------------------------------------
\* Properties of the SSE parsers
\* ---------------------------------------------------------------------
\* the payload of a `data:` line, <<>> for every other line
DataPayload(raw) ==
    LET l == strip(raw)
    IN  IF l # <<>> /\ Head(l) = "data:" THEN strip(Tail(l)) ELSE <<>>

\* the terminator frame
IsTerminator(raw) == strip(raw) = <<"data:", " ", "[DONE]">>

\* a `data:` line whose payload is a JSON document
HasJSONPayload(raw) ==
    /\ ~IsTerminator(raw)
    /\ Len(DataPayload(raw)) = 1
    /\ DataPayload(raw)[1] \in {"J1", "J2", "A1", "INV", "NUM"}

\* a well-formed data line of a chat stream: its payload is a chat chunk
ChatWellFormed(raw) ==
    /\ ~IsTerminator(raw)
    /\ Len(DataPayload(raw)) = 1
    /\ DataPayload(raw)[1] \in {"J1", "J2"}

\* a `data:` line whose payload is malformed or partial JSON
MalformedData(raw) ==
    /\ ~IsTerminator(raw)
    /\ DataPayload(raw) # <<>>
    /\ ~HasJSONPayload(raw)

\* a `data:` line whose payload is JSON but not an event of parser p
SchemaInvalid(p, raw) ==
    /\ HasJSONPayload(raw)
    /\ IF p \in {"messages_stream", "async_messages_stream"}
       THEN DataPayload(raw)[1] # "A1"
       ELSE DataPayload(raw)[1] \notin {"J1", "J2"}

\* C11: no event is yielded from a line that comes after the terminator
\* line `data: [DONE]`.
C11_NoEventAfterTerminator ==
    \A i \in 1..Len(events) :
        \A j \in 1..(events[i].line_no - 1) : ~IsTerminator(lines[j])

\* C12: in chat_stream a `data:` line with malformed JSON yields nothing
\* and leaves the stream open, and a well-formed data line yields exactly
\* its event, whatever lines came before it.
C12_MalformedSkipped ==
    [][ (parser \in ChatParsers /\ Len(lines') = Len(lines) + 1) =>
          LET raw == lines'[Len(lines')]
          IN  /\ MalformedData(raw) =>
                    (events' = events /\ stream_state' = "open")
              /\ ChatWellFormed(raw) =>
                    /\ stream_state' = "open"
                    /\ events' = Append(events,
                                        [line_no |-> Len(lines'),
                                         obj |-> DataPayload(raw)[1]])
      ]_vars

C12_Witness ==
    /\ parser = "chat_stream"
    /\ stream_state = "ended"
    /\ lines = << <<"data:", " ", "J1">>, <<"data:", " ", "BAD">>,
                  <<" ", "data:", "J2", " ">> >>
    /\ events = << [line_no |-> 1, obj |-> "J1"], [line_no |-> 3, obj |-> "J2"] >>

\* C13: a schema-invalid `data:` line ends the stream with a ZaguanError:
\* it is the last line consumed, the events are those of earlier lines, and
\* a stream ended by a line raised ZaguanError.
C13_SchemaInvalidRaisesZaguanError ==
    /\ \A j \in 1..Len(lines) :
          SchemaInvalid(parser, lines[j]) =>
              /\ j = Len(lines)
              /\ stream_state = "raised"
              /\ stream_exc.cls = "ZaguanError"
              /\ \A i \in 1..Len(events) : events[i].line_no < j
    /\ (stream_state = "raised" /\ lines # <<>>) =>
          SchemaInvalid(parser, lines[Len(lines)])

\* the same statement for the zaguan_sdk clients only
C13_SdkOnly ==
    parser # "legacy_chat_stream" => C13_SchemaInvalidRaisesZaguanError

\* the events of the well-formed data lines among the first n lines
RECURSIVE ExpectedEvents(_)
ExpectedEvents(n) ==
    IF n = 0 THEN <<>>
    ELSE IF ChatWellFormed(lines[n])
    THEN Append(ExpectedEvents(n - 1),
                [line_no |-> n, obj |-> DataPayload(lines[n])[1]])
    ELSE ExpectedEvents(n - 1)

\* C14: when no consumed line is schema-invalid, the events chat_stream has
\* yielded are exactly the chunks of the well-formed data lines consumed,
\* one per line and in input order; every other line yields nothing.
C14_ExactEvents ==
    (/\ parser \in ChatParsers
     /\ \A j \in 1..Len(lines) : ~SchemaInvalid(parser, lines[j]))
        => /\ events = ExpectedEvents(Len(lines))
           /\ (lines # <<>> => stream_state # "raised")

C14_Witness ==
    /\ parser = "chat_stream"
    /\ stream_state = "ended"
    /\ lines = << <<"data:", " ", "J1">>, <<"x", " ", "BAD">>,
                  <<"data:", " ", "[DONE]">> >>
    /\ Len(events) = 1

\* ---------------------------------------------------------------------
\* Properties of the StreamAccumulator
\* ---------------------------------------------------------------------
\* the choices of the chunks cs, in arrival order
RECURSIVE ChoicesOf(_)
ChoicesOf(cs) ==
    IF cs = <<>> THEN <<>> ELSE Head(cs).choices \o ChoicesOf(Tail(cs))

\* the deltas the choices chs carry, in arrival order
RECURSIVE DeltasOf(_)
DeltasOf(chs) ==
    IF chs = <<>> THEN <<>>
    ELSE (IF Head(chs).delta.some THEN <<Head(chs).delta.v>> ELSE <<>>)
             \o DeltasOf(Tail(chs))

Deltas(cs) == DeltasOf(ChoicesOf(cs))

\* the content fragments the deltas ds carry (a delta whose content is
\* null carries none), concatenated in arrival order
RECURSIVE ContentOf(_)
ContentOf(ds) ==
    IF ds = <<>> THEN <<>>
    ELSE (IF Head(ds).content.some THEN Head(ds).content.v ELSE <<>>)
             \o ContentOf(Tail(ds))

CarriesContent(cs) ==
    \E i \in 1..Len(Deltas(cs)) : Deltas(cs)[i].content.some

\* the tool-call fragments the deltas ds carry, in arrival order
RECURSIVE FragmentsOf(_)
FragmentsOf(ds) ==
    IF ds = <<>> THEN <<>>
    ELSE (IF Head(ds).tool_calls.some THEN Head(ds).tool_calls.v ELSE <<>>)
             \o FragmentsOf(Tail(ds))

\* the last non-null role the deltas ds carry, or null
RECURSIVE LastRole(_)
LastRole(ds) ==
    IF ds = <<>> THEN None
    ELSE IF ds[Len(ds)].role.some THEN ds[Len(ds)].role
    ELSE LastRole(SubSeq(ds, 1, Len(ds) - 1))

\* the last non-null finish_reason the choices chs carry, or null
RECURSIVE LastFinishReason(_)
LastFinishReason(chs) ==
    IF chs = <<>> THEN None
    ELSE IF chs[Len(chs)].finish_reason.some THEN chs[Len(chs)].finish_reason
    ELSE LastFinishReason(SubSeq(chs, 1, Len(chs) - 1))

IsPrefix(s, t) == Len(s) <= Len(t) /\ SubSeq(t, 1, Len(s)) = s

IsAddStep == Len(added') = Len(added) + 1 /\ SubSeq(added', 1, Len(added)) = added

\* C15: after any sequence of add_chunk calls since construction or the
\* last reset, get_content() (and get_message().content when a fragment
\* was appended) is the concatenation, in arrival order, of the content
\* fragments carried by the deltas of those chunks, and the content
\* before an add_chunk is a prefix of the content after it.
C15_ContentIsConcatenation ==
    /\ [](/\ get_content(acc) = ContentOf(Deltas(added))
          /\ (out.fn = "get_content"
                => out.value = ContentOf(Deltas(added)))
          /\ (acc.content_parts # <<>>
                => get_message(acc).content = Some(ContentOf(Deltas(added))))
          /\ (out.fn = "get_message" /\ acc.content_parts # <<>>
                => out.value.content = Some(ContentOf(Deltas(added)))))
    /\ [][IsAddStep => IsPrefix(get_content(acc), get_content(acc'))]_vars

C15_Witness ==
    /\ Len(added) = 3
    /\ out.fn = "get_content"
    /\ Len(acc.content_parts) = 2
    /\ acc.content_parts[1] # acc.content_parts[2]
    /\ out.value = acc.content_parts[1] \o acc.content_parts[2]

\* C16: the message get_message() (and reconstruct_message_from_stream)
\* returns for a stream in which a finish_reason was seen carries the last
\* non-null role, the concatenated content and the last non-null
\* finish_reason of the stream: role "assistant", content "Hello world"
\* and finish_reason "stop" for the stream "Hello", " world", stop.
C16_FinalMessage ==
    (/\ out.fn \in {"get_message", "reconstruct_message_from_stream"}
     /\ LastFinishReason(ChoicesOf(added)).some)
        => /\ GetAttr(out.value, "role") = LastRole(Deltas(added))
           /\ (CarriesContent(added) /\ ContentOf(Deltas(added)) # <<>>
                 => GetAttr(out.value, "content")
                        = Some(ContentOf(Deltas(added))))
           /\ GetAttr(out.value, "finish_reason")
                  = LastFinishReason(ChoicesOf(added))

\* the same statement without the finish_reason of the message
C16_RoleAndContent ==
    out.fn \in {"get_message", "reconstruct_message_from_stream"}
        => /\ GetAttr(out.value, "role") = LastRole(Deltas(added))
           /\ (CarriesContent(added) /\ ContentOf(Deltas(added)) # <<>>
                 => GetAttr(out.value, "content")
                        = Some(ContentOf(Deltas(added))))
           /\ acc.finish_reason = LastFinishReason(ChoicesOf(added))

\* C17: the first add_chunk after construction or reset captures the
\* chunk's id, object, created and model, and no later add_chunk changes
\* any of the four until reset() is called.
C17_IdentityFirstWins ==
    /\ [](IF added = <<>>
          THEN <<acc.id, acc.object, acc.created, acc.model>>
                   = <<None, None, None, None>>
          ELSE <<acc.id, acc.object, acc.created, acc.model>>
                   = <<Some(added[1].id), Some(added[1].object),
                       Some(added[1].created), Some(added[1].model)>>)
    /\ [][IsAddStep /\ added # <<>>
            => <<acc.id, acc.object, acc.created, acc.model>>'
                   = <<acc.id, acc.object, acc.created, acc.model>>]_vars

C17_Witness ==
    /\ Len(added) = 3
    /\ added[2].id # added[1].id
    /\ added[3].model # added[1].model
    /\ acc.id = Some(added[1].id)
    /\ acc.model = Some(added[1].model)

\* C18: once a non-null role was observed no add_chunk sets the role back
\* to null: a chunk whose deltas carry no role leaves the role unchanged,
\* a chunk whose deltas carry a role sets the last of them, and
\* get_message / get_content leave it alone.
C18_RoleNeverBackToNull ==
    [][/\ (IsAddStep =>
             LET r == LastRole(Deltas(<<added'[Len(added')]>>))
             IN  /\ acc.role.some => acc'.role.some
                 /\ acc'.role = IF r.some THEN r ELSE acc.role)
       /\ (added' = added => acc'.role = acc.role)]_vars

C18_Witness ==
    /\ Len(added) = 3
    /\ acc.role = Some("assistant")
    /\ added[1].choices # <<>> /\ added[1].choices[1].delta.some
    /\ added[1].choices[1].delta.v.role = Some("assistant")
    /\ \A k \in 2..3 :
          /\ Deltas(<<added[k]>>) # <<>>
          /\ LastRole(Deltas(<<added[k]>>)) = None

\* C19: get_message().content is null exactly when no added delta carried
\* content and is a string, the empty string included, when some delta
\* did; get_content() always returns a string, "" after zero chunks,
\* where get_message().content is null.
C19_NullOnlyWhenNoContent ==
    /\ (out.fn = "get_message"
          => /\ (out.value.content = None <=> ~CarriesContent(added))
             /\ (CarriesContent(added)
                   => out.value.content = Some(ContentOf(Deltas(added)))))
    /\ (out.fn = "get_content" => out.value = ContentOf(Deltas(added)))
    /\ (out.fn = "get_content" /\ added = <<>> => out.value = <<>>)
    /\ (out.fn = "get_message" /\ added = <<>> => out.value.content = None)

\* the part of the statement about an accumulator that received no chunk
C19_ZeroChunks ==
    /\ (out.fn = "get_content" => out.value = ContentOf(Deltas(added)))
    /\ (out.fn = "get_content" /\ added = <<>> => out.value = <<>>)
    /\ (out.fn = "get_message" /\ added = <<>> => out.value.content = None)

\* C20: the accumulated tool calls are the fragments received, in arrival
\* order, one entry per fragment whatever its id, and
\* get_message().tool_calls is null when the list is empty and the flat
\* list otherwise.
C20_ToolCallsConcatenated ==
    /\ acc.tool_calls = FragmentsOf(Deltas(added))
    /\ Len(acc.tool_calls) = Len(FragmentsOf(Deltas(added)))
    /\ (out.fn = "get_message"
          => out.value.tool_calls
                 = IF FragmentsOf(Deltas(added)) = <<>> THEN None
                   ELSE Some(FragmentsOf(Deltas(added))))

C20_Witness ==
    /\ out.fn = "get_message"
    /\ out.value.tool_calls.some
    /\ Len(out.value.tool_calls.v) = 3
    /\ \E i, j \in 1..3 :
          /\ i # j
          /\ out.value.tool_calls.v[i].id = out.value.tool_calls.v[j].id
          /\ out.value.tool_calls.v[i] # out.value.tool_calls.v[j]

\* C21: reset() returns the accumulator to its initial state: the fields
\* after reset are those of a new accumulator (so a second reset changes
\* nothing), and the fields, get_content() and get_message() after any
\* chunks added since are those of a new accumulator given the same chunks.
C21_ResetIsInitialState ==
    /\ [](/\ acc = AddChunks(NewAccumulator, added)
          /\ get_content(acc) = get_content(AddChunks(NewAccumulator, added))
          /\ get_message(acc) = reconstruct_message_from_stream(added))
    /\ [][out'.fn = "reset"
            => /\ acc' = NewAccumulator
               /\ (out.fn = "reset" => acc' = acc)]_vars

C21_Witness ==
    /\ was_reset
    /\ Len(added) = 2
    /\ acc.content_parts # <<>>
    /\ acc.finish_reason.some
    /\ acc = AddChunks(NewAccumulator, added)

\* C27: get_message() and get_content() leave every field of the
\* accumulator unchanged and only reset() clears a field; chunks of a
\* second stream added without a reset extend the content of the first
\* while the identity fields stay those of the first chunk.
C27_NeverResetsItself ==
    /\ [][/\ (out'.fn \in {"get_message", "get_content"} => acc' = acc)
          /\ (\/ acc.id.some /\ ~acc'.id.some
              \/ acc.role.some /\ ~acc'.role.some
              \/ acc.finish_reason.some /\ ~acc'.finish_reason.some
              \/ ~IsPrefix(acc.content_parts, acc'.content_parts)
              \/ ~IsPrefix(acc.tool_calls, acc'.tool_calls))
                 => out'.fn = "reset"]_vars
    /\ [](~was_reset /\ added # <<>>
            => /\ acc.id = Some(added[1].id)
               /\ acc.model = Some(added[1].model)
               /\ get_content(acc) = ContentOf(Deltas(added)))

C27_Witness ==
    /\ ~was_reset
    /\ out.fn = "get_message"
    /\ Len(added) = 3
    /\ added[1].id = "chatcmpl-1"
    /\ LastFinishReason(ChoicesOf(<<added[1], added[2]>>)) = Some("stop")
    /\ added[3].id = "chatcmpl-2"
    /\ acc.id = Some("chatcmpl-1")
    /\ out.value.content = Some(ContentOf(Deltas(<<added[1]>>))
                                  \o ContentOf(Deltas(<<added[3]>>)))
    /\ ContentOf(Deltas(<<added[1]>>)) # <<>>
    /\ ContentOf(Deltas(<<added[3]>>)) # <<>>

\* ---------------------------------------------------------------------
\* Properties of handle_response
\* ---------------------------------------------------------------------
IsErrorStatus(response) ==
    ~(response.status_code >= 200 /\ response.status_code <= 299)

\* the body is JSON with an `error` key
HasErrorKey(response) ==
    /\ response.body.json
    /\ response.body.value.kind = "object"
    /\ "error" \in DOMAIN response.body.value.obj

\* the body is a JSON object without an `error` key
LacksErrorKey(response) ==
    /\ response.body.json
    /\ response.body.value.kind = "object"
    /\ "error" \notin DOMAIN response.body.value.obj

\* the body has an `error` object
HasErrorObject(response) ==
    /\ HasErrorKey(response)
    /\ response.body.value.obj.error.kind = "object"

\* field key of the `error` object, or absent when the object has none
ErrorField(response, key, absent) ==
    LET error == response.body.value.obj.error.obj
    IN  IF key \in DOMAIN error THEN error[key] ELSE absent

RequestIdOf(response) ==
    IF "X-Request-Id" \in DOMAIN response.headers
    THEN Some(response.headers["X-Request-Id"]) ELSE None

ClassifiedErrors == {"APIError", "InsufficientCreditsError",
                     "RateLimitError", "BandAccessDeniedError"}

\* C22: for a non-2xx response whose body is not valid JSON or is JSON
\* without an `error` key, handle_response raises APIError with the
\* response's status code, the message "Unknown error" and the X-Request-Id
\* header of the response as request id (null when the header is absent).
C22_GenericForBodyWithoutError ==
    (/\ http_call.fn = "handle_response"
     /\ IsErrorStatus(http_call.response)
     /\ (~http_call.response.body.json \/ ~HasErrorKey(http_call.response)))
        => http_out = Raises("APIError",
                        [status_code |-> http_call.response.status_code,
                         message |-> JStr(<<"Unknown error">>),
                         request_id |-> RequestIdOf(http_call.response)])

\* the same statement for the bodies that are not JSON or are a JSON
\* object without an `error` key
C22_ObjectBodies ==
    (/\ http_call.fn = "handle_response"
     /\ (~http_call.response.body.json \/ LacksErrorKey(http_call.response)))
        => C22_GenericForBodyWithoutError

\* C23: for a non-2xx response whose body has an `error` object the raised
\* variant depends on error.type alone: insufficient_credits gives
\* InsufficientCreditsError (absent credits fields 0), rate_limit_exceeded
\* RateLimitError (retry_after of the body or null), band_access_denied
\* BandAccessDeniedError (absent fields null), any other or missing type
\* APIError with the status code and error.message or "Unknown error".
C23_VariantByErrorType ==
    (/\ http_call.fn = "handle_response"
     /\ IsErrorStatus(http_call.response)
     /\ HasErrorObject(http_call.response))
        => LET rsp == http_call.response
               type == ErrorField(rsp, "type", JNull)
               message == ErrorField(rsp, "message", JStr(<<"Unknown error">>))
           IN  /\ http_out.kind = "raise"
               /\ http_out.cls =
                     CASE type = JStr(<<"insufficient_credits">>)
                            -> "InsufficientCreditsError"
                       [] type = JStr(<<"rate_limit_exceeded">>)
                            -> "RateLimitError"
                       [] type = JStr(<<"band_access_denied">>)
                            -> "BandAccessDeniedError"
                       [] OTHER -> "APIError"
               /\ http_out.args.message = message
               /\ (http_out.cls = "InsufficientCreditsError"
                     => /\ http_out.args.credits_required
                             = ErrorField(rsp, "credits_required", JNum(0))
                        /\ http_out.args.credits_remaining
                             = ErrorField(rsp, "credits_remaining", JNum(0)))
               /\ (http_out.cls = "RateLimitError"
                     => http_out.args.retry_after
                            = ErrorField(rsp, "retry_after", JNull))
               /\ (http_out.cls = "BandAccessDeniedError"
                     => /\ http_out.args.band = ErrorField(rsp, "band", JNull)
                        /\ http_out.args.required_tier
                             = ErrorField(rsp, "required_tier", JNull)
                        /\ http_out.args.current_tier
                             = ErrorField(rsp, "current_tier", JNull))
               /\ (http_out.cls = "APIError"
                     => http_out.args.status_code = rsp.status_code)

C23_Witness ==
    /\ http_call.fn = "handle_response"
    /\ http_call.response.status_code = 429
    /\ HasErrorObject(http_call.response)
    /\ ErrorField(http_call.response, "retry_after", JNull) = JNum(60)
    /\ http_out.kind = "raise"
    /\ http_out.cls = "RateLimitError"
    /\ http_out.args.retry_after = JNum(60)

\* C29: for every status code outside 200-299 and every body shape
\* handle_response raises one of APIError, InsufficientCreditsError,
\* RateLimitError and BandAccessDeniedError, and for a status code in
\* 200-299 it raises none of the four.
C29_ClassificationTotal ==
    http_call.fn = "handle_response"
        => IF IsErrorStatus(http_call.response)
           THEN http_out.kind = "raise" /\ http_out.cls \in ClassifiedErrors
           ELSE ~(http_out.kind = "raise" /\ http_out.cls \in ClassifiedErrors)

\* the same statement for the bodies that are not JSON, JSON objects
\* without `error`, or JSON objects whose `error` is an object
C29_ObjectBodies ==
    (/\ http_call.fn = "handle_response"
     /\ \/ ~http_call.response.body.json
        \/ LacksErrorKey(http_call.response)
        \/ HasErrorObject(http_call.response))
        => C29_ClassificationTotal

\* ---------------------------------------------------------------------
\* Event-type lines of messages_stream
\* ---------------------------------------------------------------------
MessagesParsers == {"messages_stream", "async_messages_stream"}

IsEventLine(raw) == startswith(strip(raw), EventPrefix)

\* the event type of the last `event:` line among the first n lines
RECURSIVE RecordedType(_)
RecordedType(n) ==
    IF n = 0 THEN None
    ELSE IF IsEventLine(lines[n])
    THEN Some(strip(after(strip(lines[n]), EventPrefix)))
    ELSE RecordedType(n - 1)

\* the event type a yielded event is associated with
AssociatedType(ev) ==
    IF "event_type" \in DOMAIN ev THEN ev.event_type ELSE None

\* C25: in messages_stream an `event:` line yields no event, the event type
\* it carries is recorded, and the event yielded from a later data line is
\* associated with the event type recorded before it.
C25_EventTypeUsed ==
    parser \in MessagesParsers
        => /\ \A k \in 1..Len(events) : ~IsEventLine(lines[events[k].line_no])
           /\ event_type = RecordedType(Len(lines))
           /\ \A k \in 1..Len(events) :
                 RecordedType(events[k].line_no).some
                     => AssociatedType(events[k])
                            = RecordedType(events[k].line_no)

\* the same statement without the association of the yielded events
C25_EventTypeRecorded ==
    parser \in MessagesParsers
        => /\ \A k \in 1..Len(events) : ~IsEventLine(lines[events[k].line_no])
           /\ event_type = RecordedType(Len(lines))

\* ---------------------------------------------------------------------
\* Properties of ChatRequest.copy
\* ---------------------------------------------------------------------
IsCopyStep == Len(requests') = Len(requests) + 1

\* C24: copy() returns a distinct object every field of which equals the
\* field of the original, an assignment to a field of a copy changes no
\* other request, and chat_stream leaves the caller's request, its stream
\* flag included, unchanged while it sends stream = True.
C24_CopyIsEqualAndIndependent ==
    [][/\ (IsCopyStep
             => /\ req_op'.dst # req_op'.src
                /\ \A f \in RequestFields :
                      requests'[req_op'.dst][f] = requests[req_op'.src][f]
                /\ \A k \in 1..Len(requests) : requests'[k] = requests[k])
       /\ (~IsCopyStep /\ req_op'.op = "assign"
             => \A k \in 1..Len(requests) :
                   k # req_op'.dst => requests'[k] = requests[k])
       /\ (~IsCopyStep /\ req_op'.op = "chat_stream"
             => /\ requests' = requests
                /\ req_op'.sent["stream"] = Some(TRUE))]_vars

\* the same statement, the equality of the fields only for an original
\* whose extra_body is empty
C24_Independent ==
    [][/\ (IsCopyStep
             => /\ req_op'.dst # req_op'.src
                /\ (~GetTruthy(requests[req_op'.src], "extra_body")
                      => \A f \in RequestFields :
                            requests'[req_op'.dst][f]
                                = requests[req_op'.src][f])
                /\ \A k \in 1..Len(requests) : requests'[k] = requests[k])
       /\ (~IsCopyStep /\ req_op'.op = "assign"
             => \A k \in 1..Len(requests) :
                   k # req_op'.dst => requests'[k] = requests[k])
       /\ (~IsCopyStep /\ req_op'.op = "chat_stream"
             => /\ requests' = requests
                /\ req_op'.sent["stream"] = Some(TRUE))]_vars

\* ---------------------------------------------------------------------
\* Properties of retried calls: any max_retries, sync and async,
\* concurrent calls
\* ---------------------------------------------------------------------
\* C30: for every RetryConfig, max_retries 0 and negative included, a
\* completed call has invoked the work at least once, and a call that
\* returned normally returned a value an invocation of the work returned.
C30_WorkInvokedBeforeCompletion ==
    pc = "done"
        => /\ Len(history) >= 1
           /\ (result.kind = "returned"
                 => \E k \in 1..Len(history) :
                       /\ history[k].kind = "returned"
                       /\ history[k].value = result.value)

\* the same statement for max_retries >= 0
C30_NonNegative ==
    config.max_retries >= 0 => C30_WorkInvokedBeforeCompletion

\* the two concurrent calls: the running one and the suspended one
CallA == Locals
CallB == suspended[1]

DelaySet(cfg, a) == {calculate_delay(cfg, a, r) : r \in JitterDraws}

C28_ConcurrentCallsIndependent ==
    /\ [](\A t \in {CallA, CallB} :
            /\ Len(t.history) + (IF t.pc = "in_work" THEN 1 ELSE 0)
                   <= config.max_retries + 1
            /\ (t.history = <<>> => t.attempt = 0
                                    /\ t.last_exception = NoException)
            /\ t.attempt \in {Len(t.waits) - 1, Len(t.waits)}
            /\ (t.pc \in {"loop", "in_work"} => t.attempt = Len(t.waits))
            /\ (t.last_exception # NoException
                  => \E k \in 1..Len(t.history) :
                        t.history[k].exc = t.last_exception)
            /\ (t.result.kind = "raised"
                  => \/ /\ t.history # <<>>
                        /\ t.result.exc = t.history[Len(t.history)].exc
                     \/ t.cancelled))
    /\ [][/\ config' = config
          /\ (running' = running => suspended' = suspended)
          /\ (running' # running
                => suspended' = <<Locals>> /\ Locals' = suspended[1])]_vars

C28_Witness ==
    /\ running = 2
    /\ CallA.pc = "done" /\ CallB.pc = "done"
    /\ config.max_retries = 1
    /\ Len(CallA.history) = 2 /\ Len(CallB.history) = 2
    /\ CallA.attempt = 1 /\ CallB.attempt = 1
    /\ CallA.result.kind = "raised" /\ CallB.result.kind = "returned"
    /\ CallA.last_exception # CallB.last_exception

====
